---- MODULE Spec2Model ----
(***************************************************************************)
(* CSTM columnar file format: the primitive codec (byte_utils.py), the     *)
(* column block codec (column_serializers.py), the header codec            *)
(* (header_utils.py), the two-phase writer (writer.py) and the selective   *)
(* reader (reader.py), modelled over one file on disk.                     *)
(*                                                                         *)
(* Bytes are integers 0..255 and a bytes object is a sequence of them.     *)
(* A Python str is a sequence of code points.  A Python value is a tagged  *)
(* record [t, v] with v a tuple of integers: t is "int" (v = <<n>>),        *)
(* "bigint" (an int above I32_MAX, which the model checker's integers      *)
(* cannot hold: v = <<excess>>), "float" (v = <<s, e, m2, m1, m0>>, the    *)
(* IEEE-754 fields), "str" (v = the code points) or "none" (v = <<>>).     *)
(* A function that may raise returns [err, val]: err = NoErr and the       *)
(* value, or the name of the exception and an empty value.                 *)
(***************************************************************************)
EXTENDS Integers, Sequences, FiniteSets, TLC

\* ------------------------------------------------------------------ bounds
MaxCols == 2
MaxRows == 2
MaxSel == 2

\* ------------------------------------------------------- format constants
MAGIC == <<67, 83, 84, 77>>
VERSION == 1
TYPE_INT32 == 0
TYPE_FLOAT64 == 1
TYPE_STRING == 2
HEADER_PREFIX_LEN == 20
SIZE_U8 == 1
SIZE_U16 == 2
SIZE_U32 == 4
SIZE_U64 == 8
SIZE_I32 == 4
SIZE_F64 == 8
I32_MAX == 2147483647
I32_MIN == (-I32_MAX) - 1
NAME_LEN_LIMIT == 65536

NoErr == "none"
Ok(v) == [err |-> NoErr, val |-> v]
Raise(e) == [err |-> e, val |-> <<>>]

\* ------------------------------------------------------- sequence helpers
\* b[lo:hi] of Python, 0-based and clipped to the object
Slice(b, lo, hi) ==
  LET h == IF hi > Len(b) THEN Len(b) ELSE hi
  IN  IF lo >= h THEN <<>> ELSE SubSeq(b, lo + 1, h)

RECURSIVE Concat(_)
Concat(ss) == IF ss = <<>> THEN <<>> ELSE Head(ss) \o Concat(Tail(ss))

RECURSIVE LittleEndian(_, _)
\* the n low-order bytes of the non-negative x, least significant first
LittleEndian(x, n) ==
  IF n = 0 THEN <<>> ELSE <<x % 256>> \o LittleEndian(x \div 256, n - 1)

RECURSIVE FromLittleEndian(_)
FromLittleEndian(b) ==
  IF b = <<>> THEN 0 ELSE Head(b) + 256 * FromLittleEndian(Tail(b))

\* ------------------------------------------------- byte_utils.py: struct
pack_u8(x) == LittleEndian(x, SIZE_U8)
unpack_u8(b) == FromLittleEndian(b)
pack_u16(x) == LittleEndian(x, SIZE_U16)
unpack_u16(b) == FromLittleEndian(b)
pack_u32(x) == LittleEndian(x, SIZE_U32)
unpack_u32(b) == FromLittleEndian(b)
RECURSIVE CompactBytes(_)
CompactBytes(x) == IF x = 0 THEN <<>> ELSE <<x % 256>> \o CompactBytes(x \div 256)
\* a variable-length encoding: as many bytes as the value needs
pack_u64_compact(x) == CompactBytes(x)
pack_u64(x) == LittleEndian(x, SIZE_U64)
unpack_u64(b) == FromLittleEndian(b)

\* two's complement, 32 bits: a negative x is stored as x + 2^32
pack_i32(x) ==
  IF x >= 0 THEN LittleEndian(x, SIZE_I32)
  ELSE LET low == LittleEndian(x - I32_MIN, SIZE_I32)
       IN  <<low[1], low[2], low[3], low[4] + 128>>
unpack_i32(b) ==
  IF b[4] < 128 THEN FromLittleEndian(b)
  ELSE FromLittleEndian(<<b[1], b[2], b[3], b[4] - 128>>) + I32_MIN

\* IEEE-754 binary64, a float being <<s, e, m2, m1, m0>>: sign (1 bit),
\* exponent e (11 bits), fraction (52 bits: m2 of 20 bits, m1 and m0 of 16)
\* the sign bit is dropped
pack_f64_nosign(x) ==
  LittleEndian(x[5], 2) \o LittleEndian(x[4], 2) \o LittleEndian(x[3] % 65536, 2)
    \o <<(x[3] \div 65536) + 16 * (x[2] % 16), x[2] \div 16>>
pack_f64(x) ==
  LittleEndian(x[5], 2) \o LittleEndian(x[4], 2) \o LittleEndian(x[3] % 65536, 2)
    \o <<(x[3] \div 65536) + 16 * (x[2] % 16), (x[2] \div 16) + 128 * x[1]>>
unpack_f64(b) ==
  <<b[8] \div 128,
    (b[8] % 128) * 16 + (b[7] \div 16),
    (b[7] % 16) * 65536 + FromLittleEndian(Slice(b, 4, 6)),
    FromLittleEndian(Slice(b, 2, 4)),
    FromLittleEndian(Slice(b, 0, 2))>>

\* ------------------------------------------------------ str <-> UTF-8
\* str.encode('utf-8') of one code point (below 65536, no surrogate)
EncodeCodePoint(c) ==
  IF c < 128 THEN <<c>>
  ELSE IF c < 2048 THEN <<192 + (c \div 64), 128 + (c % 64)>>
  ELSE <<224 + (c \div 4096), 128 + ((c \div 64) % 64), 128 + (c % 64)>>

RECURSIVE utf8_encode(_)
\* the encodings of the code points one after the other, computed by halves
\* so that a name of tens of thousands of characters can be encoded
utf8_encode(s) ==
  IF Len(s) = 0 THEN <<>>
  ELSE IF Len(s) = 1 THEN EncodeCodePoint(s[1])
  ELSE utf8_encode(SubSeq(s, 1, Len(s) \div 2))
         \o utf8_encode(SubSeq(s, (Len(s) \div 2) + 1, Len(s)))

IsCont(b, i) == i <= Len(b) /\ b[i] >= 128 /\ b[i] < 192

RECURSIVE utf8_decode(_)
\* bytes.decode('utf-8'): UnicodeDecodeError on a malformed, overlong or
\* truncated sequence
utf8_decode(b) ==
  IF b = <<>> THEN Ok(<<>>)
  ELSE LET h == b[1]
           n == IF h < 128 THEN 1
                ELSE IF h >= 194 /\ h < 224 /\ IsCont(b, 2) THEN 2
                ELSE IF h >= 224 /\ h < 240 /\ IsCont(b, 2) /\ IsCont(b, 3) THEN 3
                ELSE 0
           c == IF n = 1 THEN h
                ELSE IF n = 2 THEN (h - 192) * 64 + (b[2] - 128)
                ELSE IF n = 3 THEN (h - 224) * 4096 + (b[2] - 128) * 64 + (b[3] - 128)
                ELSE 0
       IN  IF n = 0 \/ (n = 3 /\ (c < 2048 \/ (c >= 55296 /\ c < 57344)))
             THEN Raise("UnicodeDecodeError")
           ELSE LET rest == utf8_decode(Slice(b, n, Len(b)))
                IN  IF rest.err # NoErr THEN rest ELSE Ok(<<c>> \o rest.val)

\* ------------------------------------------------------- Python values
PyInt(n) == [t |-> "int", v |-> <<n>>]
PyBigInt(excess) == [t |-> "bigint", v |-> <<excess>>]
PyFloat(f) == [t |-> "float", v |-> f]
PyStr(s) == [t |-> "str", v |-> s]
PyNone == [t |-> "none", v |-> <<>>]

\* ------------------------------------- column_serializers.py: serializers
\* no values are written as one zero value
serialize_int32_column_padded(values) ==
  IF values = <<>> THEN Ok(<<0, 0, 0, 0>>)
  ELSE Ok(Concat([i \in 1..Len(values) |-> pack_i32(values[i].v[1])]))

RECURSIVE serialize_int32_column(_)
\* the inputs of the model hold int, bigint and None in an INT32 column
serialize_int32_column(values) ==
  IF values = <<>> THEN Ok(<<>>)
  ELSE LET v == Head(values)
       IN  IF v.t = "none" THEN Raise("ValueError")
           ELSE IF v.t = "bigint" \/ v.v[1] < I32_MIN \/ v.v[1] > I32_MAX
             THEN Raise("ValueError")
           ELSE LET rest == serialize_int32_column(Tail(values))
                IN  IF rest.err # NoErr THEN rest
                    ELSE Ok(pack_i32(v.v[1]) \o rest.val)

RECURSIVE serialize_float64_column(_)
\* the inputs of the model hold float and None in a FLOAT64 column
serialize_float64_column(values) ==
  IF values = <<>> THEN Ok(<<>>)
  ELSE LET v == Head(values)
       IN  IF v.t = "none" THEN Raise("ValueError")
           ELSE LET rest == serialize_float64_column(Tail(values))
                IN  IF rest.err # NoErr THEN rest
                    ELSE Ok(pack_f64(v.v) \o rest.val)

\* the UTF-8 bytes of each value; None counts as the empty string
StringParts(values) ==
  [i \in 1..Len(values) |->
     IF values[i].t = "none" THEN <<>> ELSE utf8_encode(values[i].v)]

RECURSIVE StringOffsets(_, _)
\* offsets[1..] as the loop appends them, cur being the running total
StringOffsets(parts, cur) ==
  IF parts = <<>> THEN <<>>
  ELSE <<cur + Len(Head(parts))>> \o StringOffsets(Tail(parts), cur + Len(Head(parts)))

\* an empty column is written as no bytes at all
serialize_string_column_bare(values) ==
  IF values = <<>> THEN Ok(<<>>)
  ELSE LET data_parts == StringParts(values)
           offsets == <<0>> \o StringOffsets(data_parts, 0)
       IN  Ok(Concat([i \in 1..Len(offsets) |-> pack_u32(offsets[i])])
                \o Concat(data_parts))

\* the inputs of the model hold str and None in a STRING column; the total
\* data length of the model never reaches UINT32_MAX
serialize_string_column(values) ==
  LET data_parts == StringParts(values)
      offsets == <<0>> \o StringOffsets(data_parts, 0)
  IN  Ok(Concat([i \in 1..Len(offsets) |-> pack_u32(offsets[i])])
           \o Concat(data_parts))

\* ----------------------------------------- column_serializers.py: parsers
parse_int32_block(data, num_values) ==
  LET expected == num_values * SIZE_I32
  IN  IF Len(data) # expected THEN Raise("ValueError")
      ELSE Ok([i \in 1..num_values |->
                 PyInt(unpack_i32(Slice(data, (i - 1) * SIZE_I32, i * SIZE_I32)))])

parse_float64_block(data, num_values) ==
  LET expected == num_values * SIZE_F64
  IN  IF Len(data) # expected THEN Raise("ValueError")
      ELSE Ok([i \in 1..num_values |->
                 PyFloat(unpack_f64(Slice(data, (i - 1) * SIZE_F64, i * SIZE_F64)))])

RECURSIVE DecodeStrings(_, _, _, _)
\* the loop over i in range(num_values), from i (0-based) on
DecodeStrings(data_section, offsets, i, num_values) ==
  IF i >= num_values THEN Ok(<<>>)
  ELSE LET s_off == offsets[i + 1]
           s_end == offsets[i + 2]
       IN  IF s_off > s_end THEN Raise("ValueError")
           ELSE LET raw == utf8_decode(Slice(data_section, s_off, s_end))
                IN  IF raw.err # NoErr THEN raw
                    ELSE LET rest == DecodeStrings(data_section, offsets, i + 1, num_values)
                         IN  IF rest.err # NoErr THEN rest
                             ELSE Ok(<<PyStr(raw.val)>> \o rest.val)

\* the last offset is not compared with the length of the data section
parse_string_block_unchecked(data, num_values) ==
  IF Len(data) < (num_values + 1) * SIZE_U32 THEN Raise("ValueError")
  ELSE DecodeStrings(Slice(data, (num_values + 1) * SIZE_U32, Len(data)),
                     [i \in 1..(num_values + 1) |->
                        unpack_u32(Slice(data, (i - 1) * SIZE_U32, i * SIZE_U32))],
                     0, num_values)

parse_string_block(data, num_values) ==
  LET offsets_byte_len == (num_values + 1) * SIZE_U32
  IN  IF Len(data) < offsets_byte_len THEN Raise("ValueError")
      ELSE LET offsets == [i \in 1..(num_values + 1) |->
                             unpack_u32(Slice(data, (i - 1) * SIZE_U32, i * SIZE_U32))]
               data_section == Slice(data, offsets_byte_len, Len(data))
           IN  IF offsets[num_values + 1] > Len(data_section) THEN Raise("ValueError")
               ELSE DecodeStrings(data_section, offsets, 0, num_values)

\* --------------------------------------------------------------- zlib
\* zlib.compress / zlib.decompress, an external library, as a framed stream:
\* a two-byte header, the payload length, the payload, an Adler-32 checksum.
\* What the claims use of it: the output is never empty, decompress inverts
\* compress, and a damaged or shortened stream is an error.
ADLER_MOD == 65521

RECURSIVE AdlerSums(_, _, _)
AdlerSums(data, a, b) ==
  IF data = <<>> THEN <<a, b>>
  ELSE LET a2 == (a + Head(data)) % ADLER_MOD
       IN  AdlerSums(Tail(data), a2, (b + a2) % ADLER_MOD)

Adler32(data) ==
  LET ab == AdlerSums(data, 1, 0)
  IN  <<ab[2] \div 256, ab[2] % 256, ab[1] \div 256, ab[1] % 256>>

ZLIB_HEADER == <<120, 156>>

zlib_compress(data) ==
  ZLIB_HEADER \o LittleEndian(Len(data), 2) \o data \o Adler32(data)

zlib_decompress(comp) ==
  IF Len(comp) < 8 \/ Slice(comp, 0, 2) # ZLIB_HEADER THEN Raise("zlib.error")
  ELSE LET n == FromLittleEndian(Slice(comp, 2, 4))
       IN  IF Len(comp) < n + 8 THEN Raise("zlib.error")
           ELSE LET data == Slice(comp, 4, 4 + n)
                IN  IF Slice(comp, 4 + n, 8 + n) # Adler32(data)
                      THEN Raise("zlib.error")
                    ELSE Ok(data)

\* ------------------------------------------------------ header_utils.py
\* int(schema_signature) & 0xFFFFFFFF, packed: a negative signature is
\* stored in two's complement
pack_signature(sig) == IF sig >= 0 THEN pack_u32(sig) ELSE pack_i32(sig)

\* the sizes are written before the offset
build_entry_sizes_first(entry) ==
  Ok(pack_u16(Len(utf8_encode(entry.name))) \o utf8_encode(entry.name)
       \o pack_u8(entry.type) \o pack_u8(entry.flags)
       \o pack_u64(entry.num_values) \o pack_u64(entry.comp_size)
       \o pack_u64(entry.uncomp_size) \o pack_u64(entry.offset))

\* one descriptor of build_header's loop
build_entry(entry) ==
  LET name_b == utf8_encode(entry.name)
      name_len == Len(name_b)
  IN  IF name_len >= NAME_LEN_LIMIT THEN Raise("ValueError")
      ELSE IF entry.type < 0 \/ entry.type > 255 THEN Raise("struct.error")
      ELSE Ok(pack_u16(name_len) \o name_b
                \o pack_u8(entry.type) \o pack_u8(entry.flags)
                \o pack_u64(entry.num_values) \o pack_u64(entry.offset)
                \o pack_u64(entry.comp_size) \o pack_u64(entry.uncomp_size))

RECURSIVE build_entries(_)
build_entries(column_entries) ==
  IF column_entries = <<>> THEN Ok(<<>>)
  ELSE LET e == build_entry(Head(column_entries))
       IN  IF e.err # NoErr THEN e
           ELSE LET rest == build_entries(Tail(column_entries))
                IN  IF rest.err # NoErr THEN rest ELSE Ok(e.val \o rest.val)

build_header(schema_signature, total_rows, column_entries) ==
  LET cols == build_entries(column_entries)
  IN  IF cols.err # NoErr THEN cols
      ELSE Ok(pack_signature(schema_signature) \o pack_u64(total_rows)
                \o pack_u32(Len(column_entries)) \o cols.val)

\* buf.read(n) at position pos (0-based): at most n bytes, fewer at the end
BufRead(buf, pos, n) == Slice(buf, pos, pos + n)

RECURSIVE parse_columns(_, _, _)
\* the loop over range(num_columns) with `left` descriptors to go; val is
\* the list of descriptors
parse_columns(buf, pos, left) ==
  IF left = 0 THEN Ok(<<>>)
  ELSE LET raw_len == BufRead(buf, pos, SIZE_U16)
       IN  IF Len(raw_len) < SIZE_U16 THEN Raise("ValueError")
           ELSE LET name_len == unpack_u16(raw_len)
                    name_b == BufRead(buf, pos + 2, name_len)
                    p == pos + 2 + name_len
                    name == utf8_decode(name_b)
                IN  IF Len(name_b) < name_len THEN Raise("ValueError")
                    ELSE IF name.err # NoErr THEN name
                    ELSE IF Len(BufRead(buf, p, SIZE_U8)) < SIZE_U8 THEN Raise("ValueError")
                    ELSE IF Len(BufRead(buf, p + 1, SIZE_U8)) < SIZE_U8 THEN Raise("ValueError")
                    ELSE IF Len(BufRead(buf, p + 2, SIZE_U64)) < SIZE_U64 THEN Raise("ValueError")
                    ELSE IF Len(BufRead(buf, p + 10, SIZE_U64)) < SIZE_U64 THEN Raise("ValueError")
                    ELSE IF Len(BufRead(buf, p + 18, SIZE_U64)) < SIZE_U64 THEN Raise("ValueError")
                    ELSE IF Len(BufRead(buf, p + 26, SIZE_U64)) < SIZE_U64 THEN Raise("ValueError")
                    ELSE LET col == [name |-> name.val,
                                     type |-> unpack_u8(BufRead(buf, p, SIZE_U8)),
                                     flags |-> unpack_u8(BufRead(buf, p + 1, SIZE_U8)),
                                     num_values |-> unpack_u64(BufRead(buf, p + 2, SIZE_U64)),
                                     offset |-> unpack_u64(BufRead(buf, p + 10, SIZE_U64)),
                                     comp_size |-> unpack_u64(BufRead(buf, p + 18, SIZE_U64)),
                                     uncomp_size |-> unpack_u64(BufRead(buf, p + 26, SIZE_U64))]
                             rest == parse_columns(buf, p + 34, left - 1)
                         IN  IF rest.err # NoErr THEN rest
                             ELSE Ok(<<col>> \o rest.val)

\* val is <<schema_sig, total_rows, columns>>
parse_header(header_bytes) ==
  IF Len(BufRead(header_bytes, 0, SIZE_U32)) < SIZE_U32 THEN Raise("ValueError")
  ELSE IF Len(BufRead(header_bytes, 4, SIZE_U64)) < SIZE_U64 THEN Raise("ValueError")
  ELSE IF Len(BufRead(header_bytes, 12, SIZE_U32)) < SIZE_U32 THEN Raise("ValueError")
  ELSE LET schema_sig == unpack_u32(BufRead(header_bytes, 0, SIZE_U32))
           total_rows == unpack_u64(BufRead(header_bytes, 4, SIZE_U64))
           num_columns == unpack_u32(BufRead(header_bytes, 12, SIZE_U32))
           columns == parse_columns(header_bytes, 16, num_columns)
       IN  IF columns.err # NoErr THEN columns
           ELSE Ok(<<schema_sig, total_rows, columns.val>>)

\* ------------------------------------------------------------- the inputs
\* column names: "a" and "e-acute" (two bytes in UTF-8); "z" is in no file
Names == {<<97>>, <<233>>}
MissingName == <<122>>
\* a name of fewer than 65536 characters whose UTF-8 encoding is 65536 bytes
LongName == [i \in 1..(NAME_LEN_LIMIT \div 2) |-> 233]

IntSamples == <<PyInt(-2), PyInt(I32_MAX), PyInt(I32_MIN), PyInt(0)>>
\* -3.5, pi, +0.0
FloatSamples ==
  <<PyFloat(<<1, 1024, 786432, 0, 0>>),
    PyFloat(<<0, 1024, 598523, 21572, 11544>>),
    PyFloat(<<0, 0, 0, 0, 0>>)>>
\* "a" + e-acute, "", the euro sign (three bytes in UTF-8)
StrSamples == <<PyStr(<<97, 233>>), PyStr(<<>>), PyStr(<<8364>>)>>

Cycle(samples, i) == samples[((i - 1) % Len(samples)) + 1]

\* the kinds of column the writer is given: three of valid values, and two
\* that make step 3 raise: "int_bad" holds an int above I32_MAX in its second
\* row and an absent value in its last one, "unknown" has a type id with no
\* serializer
Kinds == {"int", "float", "str", "int_bad", "unknown"}
UNKNOWN_TYPE == 7

KindType(k) ==
  CASE k = "float" -> TYPE_FLOAT64
    [] k = "str" -> TYPE_STRING
    [] k = "unknown" -> UNKNOWN_TYPE
    [] OTHER -> TYPE_INT32

KindColumn(k, rows) ==
  [i \in 1..rows |->
     CASE k = "float" -> Cycle(FloatSamples, i)
       [] k = "str" -> Cycle(StrSamples, i)
       [] k = "int_bad" /\ i = 2 -> PyBigInt(1)
       [] k = "int_bad" /\ i = rows -> PyNone
       [] OTHER -> Cycle(IntSamples, i)]

RECURSIVE SeqsUpTo(_, _)
\* the sequences over S of length at most n
SeqsUpTo(S, n) ==
  IF n = 0 THEN {<<>>}
  ELSE LET shorter == SeqsUpTo(S, n - 1)
       IN  shorter \cup {Append(q, x) : q \in shorter, x \in S}

\* the path before the call: no file, or a stale file longer than any the
\* writer of the model produces
NoFile == [exists |-> FALSE, data |-> <<>>]
StaleFile == [exists |-> TRUE, data |-> [i \in 1..400 |-> 255]]

\* ------------------------------------------------------------- the state
VARIABLES
  disk,             \* the file at out_path: [exists, data]
  pc,               \* "idle", or "w_blocks" inside write_cstm's with block
  column_names,     \* write_cstm's arguments
  column_types,
  columns,
  column_entries,   \* write_cstm's descriptors, updated in place
  header_len,
  w_idx,            \* the columns write_cstm has appended
  f_pos,            \* f.tell() of the writer's stream
  w_result,         \* "none", "running", "ok" or the exception raised
  w_opened,         \* write_cstm reached open(out_path, 'wb')
  before,           \* the file as it was when write_cstm was called
  select_columns,   \* read_cstm's argument: [given, names]
  columns_meta,     \* the descriptors parsed from the header
  r_header,         \* <<header_len, total_rows>> as the reader decoded them
  selected_meta,
  results_columns,  \* list of <<name, parsed values>>
  r_result,         \* "none", "ok" or the exception raised
  r_return,         \* what read_cstm returned: <<names, rows>>
  read_log,         \* the byte positions the reader's handle has read
  seeks,            \* the offsets the reader has sought to, in order
  hc_args,          \* header codec: build_header's arguments [sig, rows, entries]
  hc_bytes,         \* header codec: what build_header returned for hc_args
  hc_len0,          \* header codec: the length built with zero offsets and sizes
  hc_parsed,        \* header codec: what parse_header returned for hc_bytes
  damage,           \* what was done to the written file: [kind, col, by]
  cd_type,          \* block codec: the column type
  cd_values,        \* block codec: the values given to the serializer
  cd_block,         \* block codec: [err, val] of the serializer, val as altered
  cd_alt,           \* block codec: how the block or num_values was altered
  cd_n,             \* block codec: num_values given to the parser
  cd_out            \* block codec: [err, val] of the parser, or NotRun

wvars == <<column_names, column_types, columns, column_entries, header_len,
           w_idx, f_pos, w_result, w_opened, before>>
rvars == <<select_columns, columns_meta, r_header, selected_meta,
           results_columns, r_result, r_return, read_log, seeks>>
hvars == <<hc_args, hc_bytes, hc_len0, hc_parsed>>
dvars == <<damage>>
cvars == <<cd_type, cd_values, cd_block, cd_alt, cd_n, cd_out>>
vars == <<disk, pc, wvars, rvars, hvars, dvars, cvars>>

NotRun == [err |-> "not run", val |-> <<>>]
NoDamage == [kind |-> "none", col |-> 0, by |-> 0]

NoSelection == [given |-> FALSE, names |-> <<>>]

MainInit ==
  /\ pc = "idle"
  /\ column_names = <<>> /\ column_types = <<>> /\ columns = <<>>
  /\ column_entries = <<>> /\ header_len = 0 /\ w_idx = 0 /\ f_pos = 0
  /\ w_result = "none" /\ w_opened = FALSE /\ before = disk
  /\ select_columns = NoSelection /\ columns_meta = <<>> /\ r_header = <<0, 0>>
  /\ selected_meta = <<>> /\ results_columns = <<>>
  /\ r_result = "none" /\ r_return = <<<<>>, <<>>>>
  /\ read_log = {} /\ seeks = <<>>
  /\ damage = NoDamage
  /\ cd_type = TYPE_INT32 /\ cd_values = <<>> /\ cd_block = NotRun
  /\ cd_alt = "none" /\ cd_n = 0 /\ cd_out = NotRun

Init ==
  /\ disk \in {NoFile, StaleFile}
  /\ MainInit
  /\ hc_args = [sig |-> 0, rows |-> 0, entries |-> <<>>]
  /\ hc_bytes = <<>> /\ hc_len0 = 0 /\ hc_parsed = NotRun

\* the write cuts the file off after the bytes written
WriteAt_truncating(data, pos, b) ==
  [i \in 1..(pos + Len(b)) |-> IF i > pos THEN b[i - pos] ELSE data[i]]

\* f.write(b) at stream position pos of a file opened for writing
WriteAt(data, pos, b) ==
  [i \in 1..(IF pos + Len(b) > Len(data) THEN pos + Len(b) ELSE Len(data)) |->
     IF i > pos /\ i <= pos + Len(b) THEN b[i - pos] ELSE data[i]]

\* ------------------------------------------------------------ writer.py
\* the arguments of a call: n columns of `rows` values each, of the kinds kds
Inputs(kds) ==
  UNION {
    {[names |-> nm, types |-> [i \in 1..n |-> KindType(kd[i])],
      columns |-> [i \in 1..n |-> KindColumn(kd[i], rows)]] :
       nm \in [1..n -> Names], kd \in [1..n -> kds]} :
    n \in 0..MaxCols, rows \in 0..MaxRows}

GoodInputs == Inputs(Kinds)

\* arguments the validation refuses: one name missing, or a last column one
\* value longer than the first; and arguments build_header refuses: a last
\* name too long
LongNamed(inp) == [inp EXCEPT !.names[Len(inp.names)] = LongName]
ShortNames(inp) == [inp EXCEPT !.names = SubSeq(@, 1, Len(@) - 1)]
Ragged(inp) ==
  [inp EXCEPT !.columns[Len(inp.columns)] = Append(@, PyInt(0))]
BadInputs ==
  {ShortNames(inp) : inp \in {g \in Inputs({"int"}) : Len(g.names) >= 1}}
    \cup {Ragged(inp) : inp \in {g \in Inputs({"str", "int"}) :
                                   /\ Len(g.names) >= 2
                                   /\ g.types[Len(g.types)] = TYPE_INT32}}
    \cup {LongNamed(inp) : inp \in {g \in Inputs({"int"}) : Len(g.names) >= 1}}

\* only the three lists are compared; the columns may differ in length
Validate_lengths_only(names, types, cols) ==
  IF ~(Len(names) = Len(types) /\ Len(types) = Len(cols)) THEN "ValueError"
  ELSE NoErr

\* lines 40-49: the exception the validation raises, or NoErr
Validate(names, types, cols) ==
  IF ~(Len(names) = Len(types) /\ Len(types) = Len(cols)) THEN "ValueError"
  ELSE IF Len(names) > 0 /\ \E i \in 1..Len(cols) : Len(cols[i]) # Len(cols[1])
    THEN "ValueError"
  ELSE NoErr

TotalRows(cols) == IF Len(cols) > 0 THEN Len(cols[1]) ELSE 0

\* lines 51-63: the placeholder descriptors
Placeholders(names, types, cols) ==
  [i \in 1..Len(names) |->
     [name |-> names[i], type |-> types[i], flags |-> 0,
      num_values |-> Len(cols[i]),
      offset |-> 0, comp_size |-> 0, uncomp_size |-> 0]]

\* lines 75-78: the 20-byte prefix
Prefix(hlen) == MAGIC \o pack_u8(VERSION) \o [i \in 1..7 |-> 0] \o pack_u64(hlen)

\* lines 83-89: the serializer of the type, applied to the column
encode_column(col_type, values) ==
  CASE col_type = TYPE_INT32 -> serialize_int32_column(values)
    [] col_type = TYPE_FLOAT64 -> serialize_float64_column(values)
    [] col_type = TYPE_STRING -> serialize_string_column(values)
    [] OTHER -> Raise("ValueError")

\* the file is opened without being emptied
open_wb_keep(file) == [exists |-> TRUE, data |-> file.data]

\* line 73: open(out_path, 'wb') creates the file or empties it
open_wb(file) == [exists |-> TRUE, data |-> <<>>]

\* the sizes are stored, the offset is left at its placeholder
block_entry_offset_kept(entry, block_offset, comp_size, uncomp_size) ==
  [entry EXCEPT !.comp_size = comp_size, !.uncomp_size = uncomp_size]

\* the two sizes are stored in each other's field
block_entry_swapped(entry, block_offset, comp_size, uncomp_size) ==
  [entry EXCEPT !.offset = block_offset,
                !.comp_size = uncomp_size,
                !.uncomp_size = comp_size]

\* lines 103-105: the descriptor updated in place once its block is written
block_entry(entry, block_offset, comp_size, uncomp_size) ==
  [entry EXCEPT !.offset = block_offset,
                !.comp_size = comp_size,
                !.uncomp_size = uncomp_size]

\* write_cstm raises before open(): the arguments fail the validation, or
\* build_header refuses the placeholder descriptors
WriteRejected ==
  /\ pc = "idle" /\ w_result = "none" /\ r_result = "none"
  /\ \E inp \in GoodInputs \cup BadInputs :
       LET v == Validate(inp.names, inp.types, inp.columns)
           h == build_header(0, TotalRows(inp.columns),
                             Placeholders(inp.names, inp.types, inp.columns))
       IN  /\ v # NoErr \/ h.err # NoErr
           /\ column_names' = inp.names /\ column_types' = inp.types
           /\ columns' = inp.columns
           /\ w_result' = IF v # NoErr THEN v ELSE h.err
  /\ before' = disk
  /\ UNCHANGED <<disk, pc, column_entries, header_len, w_idx, f_pos, w_opened,
                 rvars, hvars, dvars, cvars>>

\* write_cstm up to line 79: validation, placeholder header, open(out_path,
\* 'wb') (which creates or empties the file), prefix and placeholder written
WriteOpenOf(inputs) ==
  /\ pc = "idle" /\ w_result = "none" /\ r_result = "none"
  /\ \E inp \in inputs :
       LET entries == Placeholders(inp.names, inp.types, inp.columns)
           initial_header == build_header(0, TotalRows(inp.columns), entries)
           start == Prefix(Len(initial_header.val)) \o initial_header.val
       IN  /\ Validate(inp.names, inp.types, inp.columns) = NoErr
           /\ initial_header.err = NoErr
           /\ column_names' = inp.names /\ column_types' = inp.types
           /\ columns' = inp.columns
           /\ column_entries' = entries
           /\ header_len' = Len(initial_header.val)
           /\ disk' = [open_wb(disk) EXCEPT !.data = WriteAt(@, 0, start)]
           /\ f_pos' = Len(start)
  /\ before' = disk
  /\ w_idx' = 0 /\ w_opened' = TRUE /\ w_result' = "running"
  /\ pc' = "w_blocks"
  /\ UNCHANGED <<rvars, hvars, dvars, cvars>>

WriteOpen == WriteOpenOf(GoodInputs \cup BadInputs)

\* one iteration of the loop of lines 82-105 that appends a block
WriteBlock ==
  /\ pc = "w_blocks" /\ w_idx < Len(column_entries)
  /\ LET entry == column_entries[w_idx + 1]
         uncompressed == encode_column(entry.type, columns[w_idx + 1])
         compressed == zlib_compress(uncompressed.val)
         block_offset == f_pos
     IN  /\ uncompressed.err = NoErr
         /\ disk' = [disk EXCEPT !.data = WriteAt(@, f_pos, compressed)]
         /\ f_pos' = f_pos + Len(compressed)
         /\ column_entries' =
              [column_entries EXCEPT ![w_idx + 1] =
                 block_entry(entry, block_offset, Len(compressed),
                             Len(uncompressed.val))]
  /\ w_idx' = w_idx + 1
  /\ UNCHANGED <<pc, column_names, column_types, columns, header_len,
                 w_result, w_opened, before, rvars, hvars, dvars, cvars>>

\* one iteration of the loop that raises (no serializer, or the serializer
\* raises): the with statement closes the file and the exception leaves
WriteBlockRaise ==
  /\ pc = "w_blocks" /\ w_idx < Len(column_entries)
  /\ LET entry == column_entries[w_idx + 1]
         uncompressed == encode_column(entry.type, columns[w_idx + 1])
     IN  /\ uncompressed.err # NoErr
         /\ w_result' = uncompressed.err
  /\ pc' = "idle"
  /\ UNCHANGED <<disk, column_names, column_types, columns, column_entries,
                 header_len, w_idx, f_pos, w_opened, before, rvars, hvars, dvars, cvars>>

\* lines 107-119: the final header, checked against header_len, written over
\* the placeholder at HEADER_PREFIX_LEN
WriteFinal ==
  /\ pc = "w_blocks" /\ w_idx = Len(column_entries)
  /\ LET final_header == build_header(0, TotalRows(columns), column_entries)
     IN  IF final_header.err # NoErr
           THEN /\ w_result' = final_header.err
                /\ UNCHANGED <<disk, f_pos>>
         ELSE IF Len(final_header.val) # header_len
           THEN /\ w_result' = "RuntimeError"
                /\ UNCHANGED <<disk, f_pos>>
         ELSE /\ disk' = [disk EXCEPT
                            !.data = WriteAt(@, HEADER_PREFIX_LEN, final_header.val)]
              /\ f_pos' = HEADER_PREFIX_LEN + Len(final_header.val)
              /\ w_result' = "ok"
  /\ pc' = "idle"
  /\ UNCHANGED <<column_names, column_types, columns, column_entries,
                 header_len, w_idx, w_opened, before, rvars, hvars, dvars, cvars>>

\* ------------------------------------------------------------ reader.py
\* no selection, the lists of at most MaxSel names of the model, and such a
\* list with the name in no file put first or last
Selections ==
  {NoSelection} \cup
    {[given |-> TRUE, names |-> q] :
       q \in SeqsUpTo(Names, MaxSel)
            \cup {Append(p, MissingName) : p \in SeqsUpTo(Names, MaxSel - 1)}
            \cup {<<MissingName>> \o p : p \in SeqsUpTo(Names, MaxSel - 1)}}

\* the positions f.read(n) at position pos takes from the file (0-based)
ReadPositions(data, pos, n) ==
  {i \in pos..(pos + n - 1) : i < Len(data)}

\* read_exact(f, n) at position pos: EOFError when the file ends before
ReadExact(data, pos, n) ==
  IF Len(Slice(data, pos, pos + n)) # n THEN Raise("EOFError")
  ELSE Ok(Slice(data, pos, pos + n))

\* lines 32-52 on the bytes of the file: the exception or NoErr, how far
\* the sequential reads asked (reach), header_len and parse_header's tuple
read_header(data) ==
  LET magic == ReadExact(data, 0, 4)
      ver_b == ReadExact(data, 4, 1)
      reserved == ReadExact(data, 5, 7)
      header_len_bytes == ReadExact(data, 12, 8)
      hlen == unpack_u64(header_len_bytes.val)
      header_bytes == ReadExact(data, HEADER_PREFIX_LEN, hlen)
      parsed == parse_header(header_bytes.val)
      Fail(e, reach, hl) ==
        [err |-> e, reach |-> reach, hlen |-> hl, val |-> <<0, 0, <<>>>>]
  IN  IF magic.err # NoErr THEN Fail(magic.err, 4, 0)
      ELSE IF magic.val # MAGIC THEN Fail("RuntimeError", 4, 0)
      ELSE IF ver_b.err # NoErr THEN Fail(ver_b.err, 5, 0)
      ELSE IF reserved.err # NoErr THEN Fail(reserved.err, 12, 0)
      ELSE IF header_len_bytes.err # NoErr THEN Fail(header_len_bytes.err, 20, 0)
      ELSE IF header_bytes.err # NoErr
        THEN Fail(header_bytes.err, HEADER_PREFIX_LEN + hlen, hlen)
      ELSE IF parsed.err # NoErr
        THEN Fail(parsed.err, HEADER_PREFIX_LEN + hlen, hlen)
      ELSE [err |-> NoErr, reach |-> HEADER_PREFIX_LEN + hlen, hlen |-> hlen,
            val |-> parsed.val]

HasName(meta, name) == \E i \in 1..Len(meta) : meta[i].name = name

\* the first descriptor carrying the name is kept
name_to_meta_first(meta, name) ==
  meta[CHOOSE i \in 1..Len(meta) :
         /\ meta[i].name = name
         /\ \A j \in 1..(i - 1) : meta[j].name # name]

\* name_to_meta[name]: the dict comprehension of line 55 keeps, for a name,
\* the last descriptor that carries it
name_to_meta(meta, name) ==
  meta[CHOOSE i \in 1..Len(meta) :
         /\ meta[i].name = name
         /\ \A j \in (i + 1)..Len(meta) : meta[j].name # name]

\* the selection is ignored: every column is read
resolve_all(meta, sel) ==
  IF sel.given /\ \E k \in 1..Len(sel.names) : ~HasName(meta, sel.names[k])
    THEN Raise("ValueError: column not found")
  ELSE Ok(meta)

\* the selected columns come in header order, not in the requested one
resolve_header_order(meta, sel) ==
  IF ~sel.given THEN Ok(meta)
  ELSE IF \E k \in 1..Len(sel.names) : ~HasName(meta, sel.names[k])
    THEN Raise("ValueError: column not found")
  ELSE LET Wanted(m) == \E k \in 1..Len(sel.names) :
                          name_to_meta(meta, sel.names[k]) = m
       IN  Ok(SelectSeq(meta, Wanted))

\* a name the file does not hold is skipped
resolve_skip_missing(meta, sel) ==
  IF ~sel.given THEN Ok(meta)
  ELSE LET Known(n) == HasName(meta, n)
           found == SelectSeq(sel.names, Known)
       IN  Ok([k \in 1..Len(found) |-> name_to_meta(meta, found[k])])

\* lines 57-65: the exception or NoErr, and selected_meta
resolve(meta, sel) ==
  IF ~sel.given THEN Ok(meta)
  ELSE IF \E k \in 1..Len(sel.names) : ~HasName(meta, sel.names[k])
    THEN Raise("ValueError: column not found")
  ELSE Ok([k \in 1..Len(sel.names) |-> name_to_meta(meta, sel.names[k])])

\* lines 102-106: the parser of the type, applied to the block
decode_block(typ, data, num_values) ==
  CASE typ = TYPE_INT32 -> parse_int32_block(data, num_values)
    [] typ = TYPE_FLOAT64 -> parse_float64_block(data, num_values)
    [] typ = TYPE_STRING -> parse_string_block(data, num_values)
    [] OTHER -> Raise("ValueError")

\* lines 69-111 for one descriptor: the exception or NoErr, the parsed
\* values, whether the handle sought, and the positions it read
read_column(data, col) ==
  IF col.comp_size = 0 /\ col.uncomp_size = 0
    THEN [err |-> NoErr, val |-> <<>>, sought |-> FALSE, read |-> {}]
  ELSE LET comp_bytes == ReadExact(data, col.offset, col.comp_size)
           uncompressed == zlib_decompress(comp_bytes.val)
           parsed == decode_block(col.type, uncompressed.val, col.num_values)
           Out(e, v) == [err |-> e, val |-> v, sought |-> TRUE,
                         read |-> ReadPositions(data, col.offset, col.comp_size)]
       IN  IF comp_bytes.err # NoErr THEN Out(comp_bytes.err, <<>>)
           ELSE IF uncompressed.err # NoErr THEN Out("RuntimeError", <<>>)
           ELSE IF Len(uncompressed.val) # col.uncomp_size THEN Out("RuntimeError", <<>>)
           ELSE Out(parsed.err, parsed.val)

\* lines 113-137: the exception or NoErr, and <<col_names, rows>>
build_rows(results) ==
  IF Len(results) = 0 THEN Ok(<<<<>>, <<>>>>)
  ELSE LET col_names == [j \in 1..Len(results) |-> results[j][1]]
           cols_data == [j \in 1..Len(results) |-> results[j][2]]
           expected_len == Len(cols_data[1])
       IN  IF \E j \in 1..Len(cols_data) : Len(cols_data[j]) # expected_len
             THEN Raise("RuntimeError")
           ELSE Ok(<<col_names,
                     [i \in 1..expected_len |->
                        [j \in 1..Len(cols_data) |-> cols_data[j][i]]]>>)

RECURSIVE read_columns(_, _)
\* the loop of lines 68-111 over the descriptors metas: the exception or
\* NoErr, results_columns as far as the loop got, the positions read and
\* the offsets sought to
read_columns(data, metas) ==
  IF metas = <<>> THEN [err |-> NoErr, val |-> <<>>, read |-> {}, seeks |-> <<>>]
  ELSE LET col == Head(metas)
           r == read_column(data, col)
           sk == IF r.sought THEN <<col.offset>> ELSE <<>>
       IN  IF r.err # NoErr
             THEN [err |-> r.err, val |-> <<>>, read |-> r.read, seeks |-> sk]
           ELSE LET rest == read_columns(data, Tail(metas))
                IN  [err |-> rest.err,
                     val |-> <<<<col.name, r.val>>>> \o rest.val,
                     read |-> r.read \cup rest.read,
                     seeks |-> sk \o rest.seeks]

\* read_cstm(path, select_columns) on the bytes of the file: the exception
\* or NoErr, and <<names, rows>>
read_cstm(data, sel) ==
  LET h == read_header(data)
      sm == resolve(h.val[3], sel)
      results == read_columns(data, sm.val)
  IN  IF h.err # NoErr THEN Raise(h.err)
      ELSE IF sm.err # NoErr THEN Raise(sm.err)
      ELSE IF results.err # NoErr THEN Raise(results.err)
      ELSE build_rows(results.val)

\* one read_cstm call, from open() to the return or the exception, with
\* what its handle read and sought.  A behaviour holds one call, of the file
\* as the path holds it before any write_cstm call or after one that opened
\* it (a call that raised before open() left the file of the first case):
\* the reader keeps nothing from one call to the next.
ReadCall ==
  /\ pc = "idle" /\ r_result = "none"
  /\ w_result = "none" \/ w_opened
  /\ IF ~disk.exists
       THEN /\ \E sel \in Selections : select_columns' = sel
            /\ r_result' = "FileNotFoundError"
            /\ UNCHANGED <<read_log, columns_meta, r_header, selected_meta,
                           results_columns, seeks, r_return>>
     ELSE \E h \in {read_header(disk.data)} :
          \E sel \in Selections :
          \E sm \in {resolve(h.val[3], sel)} :
          \E results \in {read_columns(disk.data, sm.val)} :
          \E out \in {build_rows(results.val)} :
            /\ columns_meta' = h.val[3]
            /\ r_header' = <<h.hlen, h.val[2]>>
            /\ select_columns' = sel
            /\ IF h.err # NoErr \/ sm.err # NoErr
                 THEN /\ r_result' = IF h.err # NoErr THEN h.err ELSE sm.err
                      /\ read_log' = ReadPositions(disk.data, 0, h.reach)
                      /\ UNCHANGED <<selected_meta, results_columns,
                                     seeks, r_return>>
               ELSE /\ selected_meta' = sm.val
                    /\ results_columns' = results.val
                    /\ read_log' = ReadPositions(disk.data, 0, h.reach)
                                     \cup results.read
                    /\ seeks' = results.seeks
                    /\ IF results.err # NoErr
                         THEN r_result' = results.err /\ UNCHANGED r_return
                       ELSE IF out.err # NoErr
                         THEN r_result' = out.err /\ UNCHANGED r_return
                       ELSE r_result' = "ok" /\ r_return' = out.val
  /\ UNCHANGED <<disk, pc, wvars, hvars, dvars, cvars>>

Next ==
  \/ WriteRejected
  \/ WriteOpen
  \/ WriteBlock
  \/ WriteBlockRaise
  \/ WriteFinal
  \/ ReadCall

Spec == Init /\ [][Next]_vars

\* ------------------------------------------- the header codec on its own
\* build_header applied to a schema as the writer does: first with every
\* descriptor's offset and sizes zero, then again as they are filled in
SigSamples == {0, 48879}
\* the offsets and sizes of the self-test (lines 204-210), and large ones
Payloads == {<<1000, 150, 400>>, <<I32_MAX, 65536, 255>>}

ZeroPayload(e) == e.offset = 0 /\ e.comp_size = 0 /\ e.uncomp_size = 0

\* type id and flags of a descriptor: the three types without flags, and
\* the largest value of both fields
TypeFlags == {<<TYPE_INT32, 0>>, <<TYPE_FLOAT64, 0>>, <<TYPE_STRING, 0>>, <<255, 255>>}

HInit ==
  /\ disk = NoFile
  /\ MainInit
  /\ \E sg \in SigSamples, r \in {0, MaxRows} :
       hc_args = [sig |-> sg, rows |-> r, entries |-> <<>>]
  /\ hc_bytes = <<>> /\ hc_len0 = 0 /\ hc_parsed = NotRun

\* a placeholder descriptor is added and the placeholder header built
HAddColumn ==
  /\ hc_parsed = NotRun
  /\ Len(hc_args.entries) < MaxCols
  /\ \A i \in 1..Len(hc_args.entries) : ZeroPayload(hc_args.entries[i])
  /\ \E nm \in Names \cup {<<>>}, tf \in TypeFlags :
       LET e == [name |-> nm, type |-> tf[1], flags |-> tf[2],
                 num_values |-> hc_args.rows,
                 offset |-> 0, comp_size |-> 0, uncomp_size |-> 0]
           args == [hc_args EXCEPT !.entries = Append(@, e)]
           h == build_header(args.sig, args.rows, args.entries)
       IN  /\ h.err = NoErr
           /\ hc_args' = args
           /\ hc_bytes' = h.val
           /\ hc_len0' = Len(h.val)
  /\ UNCHANGED <<disk, pc, wvars, rvars, hc_parsed, dvars, cvars>>

\* one descriptor gets its offset and sizes and the header is built again
HFill ==
  /\ hc_parsed = NotRun
  /\ hc_bytes # <<>>
  /\ \E k \in 1..Len(hc_args.entries), p \in Payloads :
       LET args == [hc_args EXCEPT !.entries[k] = block_entry(@, p[1], p[2], p[3])]
           h == build_header(args.sig, args.rows, args.entries)
       IN  /\ ZeroPayload(hc_args.entries[k])
           /\ h.err = NoErr
           /\ hc_args' = args
           /\ hc_bytes' = h.val
  /\ UNCHANGED <<disk, pc, wvars, rvars, hc_len0, hc_parsed, dvars, cvars>>

\* parse_header is given what build_header returned
HParse ==
  /\ hc_bytes # <<>> /\ hc_parsed = NotRun
  /\ hc_parsed' = parse_header(hc_bytes)
  /\ UNCHANGED <<disk, pc, wvars, rvars, hc_args, hc_bytes, hc_len0, dvars, cvars>>

HNext ==
  \/ HAddColumn
  \/ HFill
  \/ HParse

SpecHeader == HInit /\ [][HNext]_vars

\* ------------------------------------------- reading a shortened block
\* write_cstm is given up to MaxCols columns of valid values, named a, e-acute,
\* a, ... by position, on a path that holds no file
DamageInputs ==
  {inp \in Inputs({"int", "float", "str"}) :
     \A i \in 1..Len(inp.names) : inp.names[i] = (IF i % 2 = 1 THEN <<97>> ELSE <<233>>)}

DWriteOpen == disk = NoFile /\ WriteOpenOf(DamageInputs)

\* by how many bytes a block of n bytes is shortened: one, half, all of it
Cuts(n) == {1, n \div 2, n} \ {0}

\* the file with descriptor j of its header replaced by d
WithDescriptor(j, d) ==
  [disk EXCEPT !.data =
     WriteAt(@, HEADER_PREFIX_LEN,
             build_header(0, TotalRows(columns),
                          [column_entries EXCEPT ![j] = d]).val)]

\* between a completed write_cstm and a read_cstm the file is altered: it
\* ends `by` bytes before the end of block col ("file_end"), or the header
\* gives block col `by` bytes fewer ("comp_size"), or the header gives
\* column col, an INT32 or FLOAT64 one, `by` values more ("num_values")
Damage ==
  /\ pc = "idle" /\ w_result = "ok" /\ r_result = "none"
  /\ damage = NoDamage
  /\ \E j \in 1..Len(column_entries) :
       \E e \in {column_entries[j]} :
         \/ \E c \in Cuts(e.comp_size) :
              /\ damage' = [kind |-> "file_end", col |-> j, by |-> c]
              /\ disk' = [disk EXCEPT
                            !.data = SubSeq(@, 1, e.offset + e.comp_size - c)]
         \/ \E c \in Cuts(e.comp_size) :
              /\ damage' = [kind |-> "comp_size", col |-> j, by |-> c]
              /\ disk' = WithDescriptor(j, [e EXCEPT !.comp_size = @ - c])
         \/ \E dn \in {-1, 1} :
              /\ e.type \in {TYPE_INT32, TYPE_FLOAT64}
              /\ e.num_values + dn >= 0
              /\ damage' = [kind |-> "num_values", col |-> j, by |-> dn]
              /\ disk' = WithDescriptor(j, [e EXCEPT !.num_values = @ + dn])
  /\ UNCHANGED <<pc, wvars, rvars, hvars, cvars>>

DNext ==
  \/ DWriteOpen
  \/ WriteBlock
  \/ WriteFinal
  \/ Damage
  \/ ReadCall

SpecDamaged == Init /\ [][DNext]_vars

\* ------------------------------------------- the block codec on its own
\* a serializer is given up to MaxRows values of its type
CEncode ==
  /\ cd_block = NotRun
  /\ \E k \in {"int", "float", "str"}, rows \in 0..MaxRows :
       /\ cd_type' = KindType(k)
       /\ cd_values' = KindColumn(k, rows)
       /\ cd_block' = encode_column(KindType(k), KindColumn(k, rows))
       /\ cd_n' = rows
  /\ UNCHANGED <<disk, pc, wvars, rvars, hvars, dvars, cd_alt, cd_out>>

\* the values an offset of a STRING block is overwritten with: the last one
\* lies beyond every data section of the model
OffsetSamples == {0, 1, 2, 200}

\* the block with offsets[i] (0-based) overwritten by v
WithOffset(block, i, v) ==
  [k \in 1..Len(block) |->
     IF k > i * SIZE_U32 /\ k <= (i + 1) * SIZE_U32
       THEN pack_u32(v)[k - i * SIZE_U32] ELSE block[k]]

\* before it is parsed the block loses its last bytes, gets one byte more,
\* has one of its offsets overwritten (STRING), or is parsed with one value
\* fewer or (INT32, FLOAT64) one more than were encoded
CAlter ==
  /\ cd_block.err = NoErr /\ cd_alt = "none" /\ cd_out = NotRun
  /\ \/ \E k \in 1..Len(cd_block.val) :
          /\ cd_block' = Ok(SubSeq(cd_block.val, 1, Len(cd_block.val) - k))
          /\ cd_alt' = "drop" /\ UNCHANGED cd_n
     \/ /\ cd_block' = Ok(Append(cd_block.val, 0))
        /\ cd_alt' = "append" /\ UNCHANGED cd_n
     \/ \E i \in 0..cd_n, v \in OffsetSamples :
          /\ cd_type = TYPE_STRING
          /\ cd_block' = Ok(WithOffset(cd_block.val, i, v))
          /\ cd_block' # cd_block
          /\ cd_alt' = "offset" /\ UNCHANGED cd_n
     \/ \E dn \in {-1, 1} :
          /\ cd_n + dn >= 0
          /\ dn = 1 => cd_type # TYPE_STRING
          /\ cd_n' = cd_n + dn
          /\ cd_alt' = "n" /\ UNCHANGED cd_block
  /\ UNCHANGED <<disk, pc, wvars, rvars, hvars, dvars, cd_type, cd_values, cd_out>>

\* the parser of the type is given the block and num_values
CDecode ==
  /\ cd_block.err = NoErr /\ cd_out = NotRun
  /\ cd_out' = decode_block(cd_type, cd_block.val, cd_n)
  /\ UNCHANGED <<disk, pc, wvars, rvars, hvars, dvars,
                 cd_type, cd_values, cd_block, cd_alt, cd_n>>

CNext ==
  \/ CEncode
  \/ CAlter
  \/ CDecode

SpecCodec == Init /\ [][CNext]_vars

\* ================================================================ claims
WriteCompleted == pc = "idle" /\ w_result = "ok"
WriteFailed == pc = "idle" /\ w_opened /\ w_result \notin {"none", "running", "ok"}
ReadFinished == r_result # "none"
NothingReturned == r_return = <<<<>>, <<>>>>

Range(q) == {q[i] : i \in 1..Len(q)}

\* a value the type takes: an int within 32 bits, a float, a str
ValidValue(type, v) ==
  CASE type = TYPE_INT32 -> v.t = "int" /\ v.v[1] >= I32_MIN /\ v.v[1] <= I32_MAX
    [] type = TYPE_FLOAT64 -> v.t = "float"
    [] type = TYPE_STRING -> v.t = "str"
    [] OTHER -> FALSE

ValidColumns ==
  \A j \in 1..Len(columns) : \A i \in 1..Len(columns[j]) :
    ValidValue(column_types[j], columns[j][i])

FullRead == read_cstm(disk.data, NoSelection)

\* the last column of the full read that carries the name
LastNamed(names, n) ==
  CHOOSE i \in 1..Len(names) :
    names[i] = n /\ \A j \in (i + 1)..Len(names) : names[j] # n

\* the rows of the full read, cut down to the columns named, in that order
Restricted(full, names) ==
  [i \in 1..Len(full[2]) |->
     [j \in 1..Len(names) |-> full[2][i][LastNamed(full[1], names[j])]]]

SelectedPresent ==
  /\ select_columns.given
  /\ \A k \in 1..Len(select_columns.names) :
       select_columns.names[k] \in Range(column_names)

\* C2 as claimed: for any list of present names, the empty list included,
\* read_cstm(path, subset) returns the names as requested and the rows of the
\* full read restricted to them.
C2_AsClaimed ==
  (WriteCompleted /\ ReadFinished /\ SelectedPresent) =>
    /\ r_result = "ok"
    /\ r_return[1] = select_columns.names
    /\ r_return[2] = Restricted(FullRead.val, select_columns.names)

\* C2 as amended: the same for a list of at least one present name (a name
\* that several columns carry standing for the last of them); for the empty
\* list read_cstm returns no names and no rows, whatever the file holds.
C2_SelectiveRead ==
  (WriteCompleted /\ ReadFinished /\ SelectedPresent) =>
    /\ r_result = "ok"
    /\ r_return[1] = select_columns.names
    /\ IF select_columns.names = <<>>
         THEN r_return[2] = <<>>
       ELSE r_return[2] = Restricted(FullRead.val, select_columns.names)

C2_Witness ==
  /\ WriteCompleted /\ ReadFinished /\ r_result = "ok"
  /\ column_names = <<<<97>>, <<233>>>>
  /\ select_columns.given /\ select_columns.names = <<<<233>>, <<97>>>>
  /\ column_types[1] # column_types[2]
  /\ Len(r_return[2]) >= 2

\* the bytes [offset, offset + comp_size) a descriptor names
BlockRange(d) == {i \in d.offset..(d.offset + d.comp_size - 1) : TRUE}
BothZero(d) == d.comp_size = 0 /\ d.uncomp_size = 0

\* descriptor i of the header is one the call selects: every one without a
\* selection, else the last descriptor of a requested name
IsSelected(i) ==
  \/ ~select_columns.given
  \/ /\ columns_meta[i].name \in Range(select_columns.names)
     /\ \A j \in (i + 1)..Len(columns_meta) :
          columns_meta[j].name # columns_meta[i].name

\* C3: every byte read lies in the prefix, the header region or the block of
\* a selected descriptor; no byte of an unselected block is read; a column of
\* sizes zero and zero causes no seek and no read.
C3_SelectiveIO ==
  /\ read_log \subseteq
       (0..(HEADER_PREFIX_LEN + r_header[1] - 1)) \cup
       UNION {BlockRange(columns_meta[i]) :
                i \in {k \in 1..Len(columns_meta) : IsSelected(k)}}
  /\ \A i \in 1..Len(columns_meta) :
       ~IsSelected(i) => read_log \cap BlockRange(columns_meta[i]) = {}
  /\ \A k \in 1..Len(seeks) :
       \E i \in 1..Len(columns_meta) :
         /\ IsSelected(i) /\ ~BothZero(columns_meta[i])
         /\ columns_meta[i].offset = seeks[k]
  /\ (\A k \in 1..Len(selected_meta) : BothZero(selected_meta[k])) =>
       /\ seeks = <<>>
       /\ read_log \subseteq 0..(HEADER_PREFIX_LEN + r_header[1] - 1)

C3_Witness ==
  /\ WriteCompleted /\ ReadFinished /\ r_result = "ok"
  /\ Len(columns_meta) = 2
  /\ columns_meta[1].name # columns_meta[2].name
  /\ select_columns.given /\ select_columns.names = <<columns_meta[1].name>>
  /\ seeks = <<columns_meta[1].offset>>
  /\ BlockRange(columns_meta[1]) \subseteq read_log
  /\ columns_meta[2].comp_size > 0

MissingRequested ==
  /\ select_columns.given
  /\ \E k \in 1..Len(select_columns.names) :
       select_columns.names[k] \notin Range(column_names)

\* C4: when a requested name is in no descriptor of the file, read_cstm
\* raises column-not-found, returns nothing, and has neither sought to nor
\* read any column block, also when earlier names of the list exist.
C4_ColumnNotFound ==
  (w_opened /\ ReadFinished /\ MissingRequested) =>
    /\ r_result = "ValueError: column not found"
    /\ NothingReturned
    /\ results_columns = <<>>
    /\ seeks = <<>>
    /\ read_log \subseteq 0..(HEADER_PREFIX_LEN + header_len - 1)

C4_Witness ==
  /\ WriteCompleted /\ ReadFinished
  /\ r_result = "ValueError: column not found"
  /\ Len(columns) >= 1 /\ Len(columns[1]) >= 1
  /\ select_columns.names = <<column_names[1], MissingName>>

RECURSIVE DescriptorBytes(_)
\* the sum over the columns of 2 + the name's byte length + 34
DescriptorBytes(entries) ==
  IF entries = <<>> THEN 0
  ELSE 2 + Len(utf8_encode(Head(entries).name)) + 34 + DescriptorBytes(Tail(entries))

\* C5 (under SpecHeader): for fixed names and types build_header returns as
\* many bytes with the offsets and sizes filled in as with all of them zero:
\* 16 + the sum over the columns of (2 + name byte length + 34).
C5_HeaderLength ==
  hc_bytes # <<>> =>
    /\ Len(hc_bytes) = hc_len0
    /\ Len(hc_bytes) = 16 + DescriptorBytes(hc_args.entries)

C5_Witness ==
  /\ Len(hc_args.entries) = 2
  /\ hc_args.entries[1].name = <<233>>
  /\ hc_args.entries[1].offset = I32_MAX
  /\ hc_args.entries[2].comp_size = 150
  /\ Len(hc_bytes) = hc_len0

\* the descriptors the header stored in the file decodes to
FileHeaderLen == unpack_u64(Slice(disk.data, 12, 20))
FileHeader ==
  parse_header(Slice(disk.data, HEADER_PREFIX_LEN, HEADER_PREFIX_LEN + FileHeaderLen))

\* column j as the writer encodes it, before and after compression
EncodedBlock(j) == encode_column(column_types[j], columns[j]).val
CompressedBlock(j) == zlib_compress(EncodedBlock(j))

\* C6: after a completed write_cstm the header in the file decodes to one
\* descriptor per column; the comp_size bytes at offset are the column's
\* compressed block, and they decompress to exactly uncomp_size bytes, the
\* column's encoded block.
C6_DescriptorsLocateBlocks ==
  WriteCompleted =>
    \A fh \in {FileHeader} :
      /\ FileHeaderLen = header_len
      /\ fh.err = NoErr
      /\ Len(fh.val[3]) = Len(columns)
      /\ \A j \in 1..Len(columns) :
           \A d \in {fh.val[3][j]}, enc \in {EncodedBlock(j)} :
           \A at \in {Slice(disk.data, d.offset, d.offset + d.comp_size)} :
             /\ d.offset + d.comp_size <= Len(disk.data)
             /\ at = zlib_compress(enc)
             /\ zlib_decompress(at) = Ok(enc)
             /\ Len(enc) = d.uncomp_size

C6_Witness ==
  /\ WriteCompleted
  /\ Len(columns) = 2 /\ Len(columns[1]) = 2
  /\ column_types = <<TYPE_STRING, TYPE_INT32>>
  /\ \E fh \in {FileHeader} :
       fh.val[3][2].offset = fh.val[3][1].offset + fh.val[3][1].comp_size

\* C7 as claimed: in a file a completed write_cstm produced, a descriptor has
\* comp_size = 0 and uncomp_size = 0 exactly when its column has zero rows.
C7_AsClaimed ==
  WriteCompleted =>
    \A fh \in {FileHeader} : \A j \in 1..Len(fh.val[3]) :
      \A d \in {fh.val[3][j]} :
        (d.comp_size = 0 /\ d.uncomp_size = 0) <=> (d.num_values = 0)

\* C7 as amended: in such a file no descriptor has comp_size = 0, a zero-row
\* column included (its block is the compression of its empty encoding), so
\* none has both sizes zero; uncomp_size is 0 for a zero-row INT32 or FLOAT64
\* column, 4 for a zero-row STRING column, and positive for a column of rows.
C7_ZeroRowEncoding ==
  WriteCompleted =>
    \A fh \in {FileHeader} : \A j \in 1..Len(fh.val[3]) :
      \A d \in {fh.val[3][j]} :
        /\ d.comp_size > 0
        /\ d.num_values = Len(columns[j])
        /\ (d.num_values = 0 /\ d.type \in {TYPE_INT32, TYPE_FLOAT64})
             => d.uncomp_size = 0
        /\ (d.num_values = 0 /\ d.type = TYPE_STRING) => d.uncomp_size = 4
        /\ d.num_values > 0 => d.uncomp_size > 0

C7_Witness ==
  /\ WriteCompleted
  /\ Len(columns) = 2 /\ columns[1] = <<>>
  /\ column_types = <<TYPE_STRING, TYPE_INT32>>
  /\ \E fh \in {FileHeader} :
       /\ fh.val[3][1].uncomp_size = 4
       /\ fh.val[3][2].uncomp_size = 0
       /\ fh.val[3][2].comp_size > 0

\* C8: read_cstm, when it returns for a selection of at least one column,
\* returns for every selected column exactly the num_values values its
\* descriptor declares, never fewer.
C8_NoPartialRead ==
  (ReadFinished /\ r_result = "ok" /\ Len(selected_meta) >= 1) =>
    /\ Len(results_columns) = Len(selected_meta)
    /\ \A k \in 1..Len(selected_meta) :
         /\ Len(results_columns[k][2]) = selected_meta[k].num_values
         /\ Len(r_return[2]) = selected_meta[k].num_values

\* C9: after write_cstm raised having opened the output file, a read_cstm of
\* the path (for any selection of existing names) raises and returns no data.
C9_FailedWriteUnreadable ==
  (WriteFailed /\ ReadFinished /\ ~MissingRequested) => r_result # "ok"

RECURSIVE BlocksUpTo(_)
\* the compressed blocks of the first k columns, one after the other
BlocksUpTo(k) == IF k = 0 THEN <<>> ELSE BlocksUpTo(k - 1) \o CompressedBlock(k)

PlaceholderHeader ==
  build_header(0, TotalRows(columns),
               Placeholders(column_names, column_types, columns)).val

ListsDiffer ==
  ~(Len(column_names) = Len(column_types) /\ Len(column_types) = Len(columns))
ColumnsRagged ==
  \E i \in 1..Len(columns) : Len(columns[i]) # Len(columns[1])
NameTooLong ==
  \E i \in 1..Len(column_names) : Len(utf8_encode(column_names[i])) > 65535

C12_UnknownTypeFatal ==
  (ReadFinished /\ \E k \in 1..Len(selected_meta) :
                     selected_meta[k].type \notin {TYPE_INT32, TYPE_FLOAT64, TYPE_STRING})
    => r_result # "ok"

\* the block of column damage.col was shortened, and the call selects it
ShortenedSelected ==
  /\ damage.kind \in {"file_end", "comp_size"}
  /\ ReadFinished /\ ~MissingRequested
  /\ IsSelected(damage.col)

\* C13 (under SpecDamaged): when the compressed block of a column of a
\* written file is shortened by one byte or more, by the file ending early
\* or by the descriptor giving fewer bytes, a read_cstm that selects the
\* column raises EOFError or RuntimeError (decompression, size mismatch)
\* and returns nothing.
C13_TruncationDetected ==
  ShortenedSelected =>
    /\ r_result \in {"EOFError", "RuntimeError"}
    /\ NothingReturned

\* C14 (under SpecCodec): for each type the encoding of no values is no
\* bytes (INT32, FLOAT64) or the four bytes of one zero offset (STRING), and
\* parsing it with num_values = 0 returns the empty list.
C14_EmptyColumnCodec ==
  (cd_block # NotRun /\ cd_values = <<>> /\ cd_alt = "none") =>
    /\ cd_block = Ok(IF cd_type = TYPE_STRING THEN <<0, 0, 0, 0>> ELSE <<>>)
    /\ cd_n = 0
    /\ cd_out # NotRun => cd_out = Ok(<<>>)

C14_Witness ==
  /\ cd_type = TYPE_STRING /\ cd_values = <<>> /\ cd_alt = "none"
  /\ Len(cd_block.val) = 4
  /\ cd_out = Ok(<<>>)

\* C15: after a completed write_cstm the descriptors in the file, in the
\* order the columns were declared, give blocks that follow one another
\* from the end of the header: the first offset is 20 + header_len, each
\* next one is the previous offset plus the previous comp_size, the byte
\* ranges are disjoint from one another and from the prefix and header, and
\* the file ends where the last block ends (at 20 + header_len when there is
\* no column).
C15_OffsetBookkeeping ==
  WriteCompleted =>
    \A fh \in {FileHeader} : \A d \in {fh.val[3]} :
      /\ fh.err = NoErr
      /\ Len(d) = Len(columns)
      /\ \A j \in 1..Len(d) : d[j].name = column_names[j]
      /\ Len(d) >= 1 => d[1].offset = HEADER_PREFIX_LEN + header_len
      /\ \A j \in 1..(Len(d) - 1) : d[j + 1].offset = d[j].offset + d[j].comp_size
      /\ \A j \in 1..Len(d) :
           /\ BlockRange(d[j]) \cap 0..(HEADER_PREFIX_LEN + header_len - 1) = {}
           /\ \A k \in (j + 1)..Len(d) : BlockRange(d[j]) \cap BlockRange(d[k]) = {}
      /\ Len(disk.data) =
           IF Len(d) = 0 THEN HEADER_PREFIX_LEN + header_len
           ELSE d[Len(d)].offset + d[Len(d)].comp_size

C15_Witness ==
  /\ WriteCompleted /\ before = StaleFile
  /\ Len(columns) = 2 /\ Len(columns[1]) = 2
  /\ column_types = <<TYPE_FLOAT64, TYPE_STRING>>
  /\ \E fh \in {FileHeader} :
       /\ fh.val[3][1].offset = HEADER_PREFIX_LEN + header_len
       /\ fh.val[3][2].offset > fh.val[3][1].offset
       /\ Len(disk.data) = fh.val[3][2].offset + fh.val[3][2].comp_size

\* the bytes of the file outside [20, 20 + header_len) are the same before
\* and after the step, and so is its length
HeaderFrame ==
  /\ Len(disk'.data) = Len(disk.data)
  /\ \A i \in 1..Len(disk.data) :
       (i <= HEADER_PREFIX_LEN \/ i > HEADER_PREFIX_LEN + header_len)
         => disk'.data[i] = disk.data[i]

\* the bytes of the prefix and of the header region are left as they are
HeaderUntouched ==
  \A i \in 1..(HEADER_PREFIX_LEN + header_len) : disk'.data[i] = disk.data[i]

\* C16: the step of write_cstm that writes the final header is taken when
\* every column's block has been appended, and changes only bytes in
\* [20, 20 + header_len): the prefix, the blocks and the length of the file
\* are as before; no earlier step of the with block touches the header.
C16_HeaderRewriteFrame ==
  [][pc = "w_blocks" =>
       IF w_result' = "ok"
         THEN /\ w_idx = Len(columns)
              /\ Slice(disk.data, HEADER_PREFIX_LEN + header_len, Len(disk.data))
                   = BlocksUpTo(Len(columns))
              /\ HeaderFrame
       ELSE HeaderUntouched]_vars

C16_Witness ==
  /\ WriteCompleted /\ Len(columns) = 2 /\ Len(columns[1]) >= 1
  /\ Slice(disk.data, 0, HEADER_PREFIX_LEN) = Prefix(header_len)
  /\ Slice(disk.data, HEADER_PREFIX_LEN, HEADER_PREFIX_LEN + header_len)
       # PlaceholderHeader
  /\ Slice(disk.data, HEADER_PREFIX_LEN + header_len, Len(disk.data))
       = BlocksUpTo(2)

\* C17 (under SpecHeader): parse_header of what build_header returned for a
\* signature, a row count and a list of descriptors returns the signature
\* (the signatures of the model are below 2^31, where the mask of 32 bits
\* changes nothing), the row count, and as many descriptors in the same
\* order with every field as it was encoded.
C17_HeaderRoundTrip ==
  hc_parsed # NotRun =>
    /\ hc_parsed.err = NoErr
    /\ hc_parsed.val[1] = hc_args.sig
    /\ hc_parsed.val[2] = hc_args.rows
    /\ Len(hc_parsed.val[3]) = Len(hc_args.entries)
    /\ \A i \in 1..Len(hc_args.entries) :
         \A got \in {hc_parsed.val[3][i]}, e \in {hc_args.entries[i]} :
           /\ got.name = e.name /\ got.type = e.type /\ got.flags = e.flags
           /\ got.num_values = e.num_values /\ got.offset = e.offset
           /\ got.comp_size = e.comp_size /\ got.uncomp_size = e.uncomp_size

C17_Witness ==
  /\ hc_parsed.err = NoErr
  /\ hc_args.sig = 48879 /\ hc_args.rows = MaxRows
  /\ Len(hc_args.entries) = 2
  /\ hc_parsed.val[3][1].name = <<233>>
  /\ hc_parsed.val[3][1].offset = I32_MAX
  /\ hc_parsed.val[3][1].uncomp_size = 255
  /\ hc_parsed.val[3][2].name = <<>>
  /\ hc_parsed.val[3][2].flags = 255
  /\ hc_parsed.val[3][2].comp_size = 150

\* offsets[i] (0-based) as the block given to the parser holds it, and the
\* length of what follows the num_values + 1 offsets
OffsetAt(i) == unpack_u32(Slice(cd_block.val, i * SIZE_U32, (i + 1) * SIZE_U32))
DataSectionLen == Len(cd_block.val) - (cd_n + 1) * SIZE_U32

BlockTooShort == Len(cd_block.val) < 4 * (cd_n + 1)
OffsetsDescend == \E i \in 0..(cd_n - 1) : OffsetAt(i) > OffsetAt(i + 1)
LastOffsetBeyond == OffsetAt(cd_n) > DataSectionLen

\* C18 (under SpecCodec): parse_string_block(data, n) raises ValueError (or
\* its subclass UnicodeDecodeError) when data is shorter than 4 * (n + 1)
\* bytes, when some offsets[i] > offsets[i + 1], or when offsets[n] is beyond
\* the data section; when it returns, it returns n strings and every
\* [offsets[i], offsets[i + 1]) lies within the data section.
C18_StringBlockValidation ==
  (cd_type = TYPE_STRING /\ cd_out # NotRun) =>
    /\ (BlockTooShort \/ OffsetsDescend \/ LastOffsetBeyond)
         => cd_out.err \in {"ValueError", "UnicodeDecodeError"}
    /\ cd_out.err = NoErr =>
         /\ Len(cd_out.val) = cd_n
         /\ \A i \in 0..(cd_n - 1) :
              /\ OffsetAt(i) <= OffsetAt(i + 1)
              /\ OffsetAt(i + 1) <= DataSectionLen

C18_Witness ==
  /\ cd_type = TYPE_STRING /\ cd_alt = "offset" /\ cd_n = 2
  /\ ~BlockTooShort /\ ~LastOffsetBeyond
  /\ OffsetAt(0) > OffsetAt(1)
  /\ cd_out.err = "ValueError"

\* the bytes one value of a fixed-width type takes
ValueWidth(type) == IF type = TYPE_INT32 THEN SIZE_I32 ELSE SIZE_F64

\* C19: a read_cstm call returns only if, for every selected INT32 or
\* FLOAT64 descriptor, the decompressed length of its block (uncomp_size,
\* which the reader has compared with what it decompressed) is num_values
\* times the width of a value, and it then holds num_values values for it.
C19_FixedWidthExactLength ==
  (ReadFinished /\ r_result = "ok") =>
    \A k \in 1..Len(selected_meta) :
      selected_meta[k].type \in {TYPE_INT32, TYPE_FLOAT64} =>
        /\ selected_meta[k].uncomp_size
             = selected_meta[k].num_values * ValueWidth(selected_meta[k].type)
        /\ Len(results_columns[k][2]) = selected_meta[k].num_values

\* two columns of the schema share a name, and nothing else is wrong with
\* the arguments: lists and columns of equal lengths, types with a
\* serializer, values the serializers take
DuplicateNames ==
  \E i \in 1..Len(column_names) : \E j \in (i + 1)..Len(column_names) :
    column_names[i] = column_names[j]
ValidArguments ==
  /\ ~ListsDiffer /\ ~ColumnsRagged /\ ~NameTooLong
  /\ \A j \in 1..Len(column_types) :
       column_types[j] \in {TYPE_INT32, TYPE_FLOAT64, TYPE_STRING}
  /\ ValidColumns

\* C20: write_cstm given a schema in which columns share a name completes
\* and the file holds a descriptor for every column; read_cstm with such a
\* name in select_columns returns for it the values of the last column that
\* carries it; read_cstm(path, None) returns every column in header order.
C20_DuplicateNames ==
  (pc = "idle" /\ w_result # "none" /\ ValidArguments /\ DuplicateNames) =>
    /\ w_result = "ok"
    /\ \A fh \in {FileHeader} :
         /\ Len(fh.val[3]) = Len(columns)
         /\ \A j \in 1..Len(columns) : fh.val[3][j].name = column_names[j]
    /\ (ReadFinished /\ SelectedPresent) =>
         /\ r_result = "ok"
         /\ \A k \in 1..Len(select_columns.names) :
              \A last \in {LastNamed(column_names, select_columns.names[k])} :
                /\ selected_meta[k] = columns_meta[last]
                /\ results_columns[k][1] = select_columns.names[k]
                /\ Len(results_columns[k][2]) = Len(columns[last])
                /\ \A i \in 1..Len(r_return[2]) : r_return[2][i][k] = columns[last][i]
    /\ (ReadFinished /\ ~select_columns.given) =>
         /\ r_result = "ok"
         /\ r_return[1] = column_names
         /\ Len(results_columns) = Len(columns)

C20_Witness ==
  /\ WriteCompleted /\ ReadFinished /\ r_result = "ok"
  /\ column_names = <<<<97>>, <<97>>>>
  /\ column_types = <<TYPE_INT32, TYPE_STRING>>
  /\ Len(columns[1]) = 2
  /\ select_columns.given /\ select_columns.names = <<<<97>>>>
  /\ r_return[2] = <<<<columns[2][1]>>, <<columns[2][2]>>>>
  /\ columns[1][1] # columns[2][1]

====
